---- MODULE Spec2Model ----
(***************************************************************************)
(* Model of datatransformation.py: a Kinesis Firehose transformation       *)
(* Lambda.  process_record decodes one record (base64, UTF-8), splits it   *)
(* into lines and tab-separated columns, keeps the lines of 4 columns,     *)
(* writes them as CSV and encodes the CSV in base64; handler validates the *)
(* DATA_BUCKET_NAME captured at import and maps process_record over the    *)
(* batch.                                                                  *)
(*                                                                         *)
(* A str is a sequence of code points, a bytes object a sequence of        *)
(* 0..255.  A dict is a record of the keys it may hold plus one flag per   *)
(* optional key.                                                           *)
(***************************************************************************)
EXTENDS Integers, Sequences, FiniteSets, TLC

(***************************************************************************)
(* Constants of the module (lines 16-18).                                  *)
(***************************************************************************)
CLICKSTREAM_LABELS == <<"prev", "curr", "type", "n">>
DELIMITER == 9

(***************************************************************************)
(* The interpreter the function runs on, which the source does not fix.    *)
(* The library calls of lines 35 and 63 do not behave alike on all of      *)
(* them; there is one value per behaviour, named after an interpreter that *)
(* has it:                                                                 *)
(*   "3.9"     CPython 3.6 to 3.9                                          *)
(*   "3.10"    CPython 3.10                                                *)
(*   "3.12"    CPython 3.11 and 3.12                                       *)
(*   "3.13.0"  CPython 3.13 and later, base64 decoding as before           *)
(*   "3.13.13" CPython 3.13 and later, base64 decoding as of 3.13.13       *)
(***************************************************************************)
PythonVersions == {"3.9", "3.10", "3.12", "3.13.0", "3.13.13"}

\* binascii.a2b_base64, non-strict: a pad that completes a quad ends the
\* input; as of 3.13.13 the pad is skipped and the decoding goes on
PadEndsInput(py) == py # "3.13.13"

\* csv.writer: a field that holds NUL is quoted (3.6 to 3.9), refused with
\* _csv.Error (3.10), written as it is (3.11 and later)
QuotesNUL(py) == py = "3.9"
RefusesNUL(py) == py = "3.10"

\* csv.writer: a field that holds '\r' or '\n' is quoted whatever the line
\* terminator (3.13 and later)
QuotesCR(py) == py \in {"3.13.0", "3.13.13"}

(***************************************************************************)
(* Sequence helpers.                                                       *)
(***************************************************************************)
RECURSIVE Flatten(_)
Flatten(ss) == IF ss = <<>> THEN <<>> ELSE Head(ss) \o Flatten(Tail(ss))

Range(s) == {s[k] : k \in DOMAIN s}

(***************************************************************************)
(* base64.b64decode(s) with the default validate=False, as CPython's       *)
(* binascii.a2b_base64 computes it in its non-strict mode: a str holding a *)
(* non-ASCII character is a ValueError; characters outside the alphabet    *)
(* are discarded; a quad left incomplete at the end is a binascii.Error.   *)
(* Where PadEndsInput, a pad that completes a quad ends the input and what *)
(* follows is ignored; elsewhere the pads are skipped, the characters that *)
(* follow go on filling the quad, and at the end a quad of 2 or 3          *)
(* characters is complete when the pads that end the input complete it.    *)
(***************************************************************************)
B64Val(c) ==
    IF c >= 65 /\ c <= 90 THEN c - 65
    ELSE IF c >= 97 /\ c <= 122 THEN c - 97 + 26
    ELSE IF c >= 48 /\ c <= 57 THEN c - 48 + 52
    ELSE IF c = 43 THEN 62
    ELSE IF c = 47 THEN 63
    ELSE 64

RECURSIVE a2b_base64(_, _, _, _, _, _, _)
a2b_base64(s, i, quad, left, pads, out, py) ==
    IF i > Len(s)
    THEN IF quad = 0 \/ (~PadEndsInput(py) /\ quad >= 2 /\ quad + pads >= 4)
         THEN [ok |-> TRUE, err |-> "", val |-> out]
         ELSE [ok |-> FALSE, err |-> "binascii.Error", val |-> <<>>]
    ELSE LET c == s[i]
             v == B64Val(c)
         IN IF c = 61
            THEN IF PadEndsInput(py) /\ quad >= 2 /\ quad + pads + 1 >= 4
                 THEN [ok |-> TRUE, err |-> "", val |-> out]
                 ELSE a2b_base64(s, i + 1, quad, left,
                                 IF quad >= 2 THEN pads + 1 ELSE pads, out, py)
            ELSE IF v >= 64
            THEN a2b_base64(s, i + 1, quad, left, pads, out, py)
            ELSE CASE quad = 0 -> a2b_base64(s, i + 1, 1, v, 0, out, py)
                   [] quad = 1 -> a2b_base64(s, i + 1, 2, v % 16, 0,
                                             Append(out, left * 4 + (v \div 16)), py)
                   [] quad = 2 -> a2b_base64(s, i + 1, 3, v % 4, 0,
                                             Append(out, left * 16 + (v \div 4)), py)
                   [] OTHER    -> a2b_base64(s, i + 1, 0, 0, 0,
                                             Append(out, left * 64 + v), py)

b64decode(s, py) ==
    IF \E k \in DOMAIN s : s[k] > 127
    THEN [ok |-> FALSE, err |-> "ValueError", val |-> <<>>]
    ELSE a2b_base64(s, 1, 0, 0, 0, <<>>, py)

(***************************************************************************)
(* base64.b64encode(b): 3 bytes to 4 characters, '=' padding.              *)
(***************************************************************************)
B64Char(v) ==
    IF v < 26 THEN 65 + v
    ELSE IF v < 52 THEN 97 + (v - 26)
    ELSE IF v < 62 THEN 48 + (v - 52)
    ELSE IF v = 62 THEN 43
    ELSE 47

RECURSIVE b64encode(_)
b64encode(b) ==
    IF Len(b) = 0 THEN <<>>
    ELSE IF Len(b) = 1
    THEN <<B64Char(b[1] \div 4), B64Char((b[1] % 4) * 16), 61, 61>>
    ELSE IF Len(b) = 2
    THEN <<B64Char(b[1] \div 4),
           B64Char((b[1] % 4) * 16 + (b[2] \div 16)),
           B64Char((b[2] % 16) * 4), 61>>
    ELSE <<B64Char(b[1] \div 4),
           B64Char((b[1] % 4) * 16 + (b[2] \div 16)),
           B64Char((b[2] % 16) * 4 + (b[3] \div 64)),
           B64Char(b[3] % 64)>> \o b64encode(SubSeq(b, 4, Len(b)))

(***************************************************************************)
(* bytes.decode('utf-8') in strict mode and str.encode('utf-8').           *)
(***************************************************************************)
IsCont(b, i, lo, hi) == i <= Len(b) /\ b[i] >= lo /\ b[i] <= hi

RECURSIVE utf8_decode_from(_, _, _)
utf8_decode_from(b, i, out) ==
    IF i > Len(b) THEN [ok |-> TRUE, err |-> "", val |-> out]
    ELSE LET c == b[i]
             bad == [ok |-> FALSE, err |-> "UnicodeDecodeError", val |-> <<>>]
         IN IF c < 128 THEN utf8_decode_from(b, i + 1, Append(out, c))
            ELSE IF c >= 194 /\ c <= 223
            THEN IF IsCont(b, i + 1, 128, 191)
                 THEN utf8_decode_from(b, i + 2,
                          Append(out, (c - 192) * 64 + (b[i + 1] - 128)))
                 ELSE bad
            ELSE IF c >= 224 /\ c <= 239
            THEN IF /\ IsCont(b, i + 1, IF c = 224 THEN 160 ELSE 128,
                                        IF c = 237 THEN 159 ELSE 191)
                    /\ IsCont(b, i + 2, 128, 191)
                 THEN utf8_decode_from(b, i + 3,
                          Append(out, (c - 224) * 4096 + (b[i + 1] - 128) * 64
                                      + (b[i + 2] - 128)))
                 ELSE bad
            ELSE IF c >= 240 /\ c <= 244
            THEN IF /\ IsCont(b, i + 1, IF c = 240 THEN 144 ELSE 128,
                                        IF c = 244 THEN 143 ELSE 191)
                    /\ IsCont(b, i + 2, 128, 191)
                    /\ IsCont(b, i + 3, 128, 191)
                 THEN utf8_decode_from(b, i + 4,
                          Append(out, (c - 240) * 262144 + (b[i + 1] - 128) * 4096
                                      + (b[i + 2] - 128) * 64 + (b[i + 3] - 128)))
                 ELSE bad
            ELSE bad

utf8_decode(b) == utf8_decode_from(b, 1, <<>>)

utf8_encode_char(c) ==
    IF c < 128 THEN <<c>>
    ELSE IF c < 2048 THEN <<192 + (c \div 64), 128 + (c % 64)>>
    ELSE IF c < 65536
    THEN <<224 + (c \div 4096), 128 + ((c \div 64) % 64), 128 + (c % 64)>>
    ELSE <<240 + (c \div 262144), 128 + ((c \div 4096) % 64),
           128 + ((c \div 64) % 64), 128 + (c % 64)>>

utf8_encode(t) == Flatten([k \in DOMAIN t |-> utf8_encode_char(t[k])])

(***************************************************************************)
(* str.split(sep) for a one-character sep, and str.strip().                *)
(***************************************************************************)
RECURSIVE split_from(_, _, _, _)
split_from(t, sep, i, cur) ==
    IF i > Len(t) THEN <<cur>>
    ELSE IF t[i] = sep THEN <<cur>> \o split_from(t, sep, i + 1, <<>>)
    ELSE split_from(t, sep, i + 1, Append(cur, t[i]))

split(t, sep) == split_from(t, sep, 1, <<>>)

isspace(c) ==
    \/ c >= 9 /\ c <= 13
    \/ c >= 28 /\ c <= 32
    \/ c \in {133, 160, 5760, 8232, 8233, 8239, 8287, 12288}
    \/ c >= 8192 /\ c <= 8202

strip(t) ==
    LET keep == {k \in DOMAIN t : ~isspace(t[k])}
    IN IF keep = {} THEN <<>>
       ELSE LET lo == CHOOSE k \in keep : \A j \in keep : k <= j
                hi == CHOOSE k \in keep : \A j \in keep : k >= j
            IN SubSeq(t, lo, hi)

(***************************************************************************)
(* DataFrame(records, columns=CLICKSTREAM_LABELS).to_csv(header=False,     *)
(* index=False): the csv writer pandas drives, with delimiter ',',         *)
(* quotechar '"', QUOTE_MINIMAL, doublequote, no escapechar and            *)
(* lineterminator os.linesep, '\n' on the Linux of the Lambda runtime.  A  *)
(* field is quoted when it holds the delimiter, the quote character or a   *)
(* character of the line terminator; a quote inside it is doubled.  The    *)
(* columns hold str objects, which pandas writes as they are.              *)
(*                                                                         *)
(* What the writer does of a carriage return and of a NUL in a field       *)
(* depends on the interpreter (QuotesCR, QuotesNUL, RefusesNUL); a field   *)
(* it refuses is a _csv.Error raised by to_csv.                            *)
(***************************************************************************)
CsvDelimiter == 44
CsvQuote == 34
CsvLineTerminator == <<10>>

csv_needs_quote(f, py) ==
    \E k \in DOMAIN f :
        \/ f[k] = CsvDelimiter
        \/ f[k] = CsvQuote
        \/ f[k] \in Range(CsvLineTerminator)
        \/ QuotesCR(py) /\ f[k] \in {10, 13}
        \/ QuotesNUL(py) /\ f[k] = 0

\* the writer raises on the field: need to escape, but no escapechar set
csv_refuses(f, py) == RefusesNUL(py) /\ \E k \in DOMAIN f : f[k] = 0

\* variant: the field is written as it is, never quoted
csv_field_unquoted(f, py) == f

csv_field(f, py) ==
    IF csv_needs_quote(f, py)
    THEN <<CsvQuote>>
         \o Flatten([k \in DOMAIN f |->
                IF f[k] = CsvQuote THEN <<CsvQuote, CsvQuote>> ELSE <<f[k]>>])
         \o <<CsvQuote>>
    ELSE f

RECURSIVE csv_join(_, _)
csv_join(fs, py) ==
    IF Len(fs) = 0 THEN <<>>
    ELSE IF Len(fs) = 1 THEN csv_field(fs[1], py)
    ELSE csv_field(fs[1], py) \o <<CsvDelimiter>> \o csv_join(Tail(fs), py)

csv_row(cols, py) == csv_join(cols, py) \o CsvLineTerminator

to_csv(records, py) ==
    IF \E r \in DOMAIN records : \E k \in DOMAIN records[r] : csv_refuses(records[r][k], py)
    THEN [ok |-> FALSE, err |-> "_csv.Error", val |-> <<>>]
    ELSE [ok |-> TRUE, err |-> "",
          val |-> Flatten([k \in DOMAIN records |-> csv_row(records[k], py)])]

(***************************************************************************)
(* process_record (lines 25-78).                                           *)
(*                                                                         *)
(* An input record is [hasId, recordId, hasData, data]; hasId and hasData  *)
(* say whether the dict holds the key; py is the interpreter the call runs *)
(* on.  The result is                                                      *)
(* [raised, exc, ret, log]: either the dict returned (ret) or the          *)
(* exception that leaves process_record (raised, exc), and the calls made  *)
(* to the logger, each <<level, recordId>>.                                *)
(***************************************************************************)
NoId == ""
NoReturn == [recordId |-> NoId, result |-> "", data |-> <<>>]

Returns(r, log) == [raised |-> FALSE, exc |-> "", ret |-> r, log |-> log]
Raises(e, log) == [raised |-> TRUE, exc |-> e, ret |-> NoReturn, log |-> log]

\* line 43: if not line.strip()
IsBlankLine(line) == strip(line) = <<>>

\* variant: the line is trimmed before it is split
split_columns_stripped(line) == split(strip(line), DELIMITER)

\* line 48: cols = line.split(DELIMITER)
split_columns(line) == split(line, DELIMITER)

\* variant: only a line with too few columns is malformed
IsMalformedShort(cols) == Len(cols) < Len(CLICKSTREAM_LABELS)

\* line 49: len(cols) != len(CLICKSTREAM_LABELS)
IsMalformed(cols) == Len(cols) # Len(CLICKSTREAM_LABELS)

\* lines 42-57: the loop over the lines; the rows kept and the warnings logged.
RECURSIVE parse_lines(_, _, _)
parse_lines(lines, id, acc) ==
    IF lines = <<>> THEN acc
    ELSE LET line == Head(lines)
             cols == split_columns(line)
         IN IF IsBlankLine(line) THEN parse_lines(Tail(lines), id, acc)
            ELSE IF IsMalformed(cols)
            THEN parse_lines(Tail(lines), id,
                     [acc EXCEPT !.log = Append(@, <<"WARNING", id>>)])
            ELSE parse_lines(Tail(lines), id,
                     [acc EXCEPT !.records = Append(@, cols)])

\* line 35: base64.b64decode(record.get('data')).decode('utf-8')
decode_data(record, py) ==
    IF ~record.hasData
    THEN [ok |-> FALSE, err |-> "TypeError", val |-> <<>>]
    ELSE LET raw == b64decode(record.data, py)
         IN IF raw.ok THEN utf8_decode(raw.val) ELSE raw

\* lines 59-64: the rows to CSV, to UTF-8, to base64; the exception of
\* to_csv when it raises.
encode_records(records, py) ==
    LET csv_data == to_csv(records, py)
    IN IF csv_data.ok
       THEN [ok |-> TRUE, err |-> "", val |-> b64encode(utf8_encode(csv_data.val))]
       ELSE csv_data

\* variant: the failure path returns the decoded bytes encoded again
failed_data_reencoded(record) == b64encode(b64decode(record.data, "3.12").val)

\* line 77: the data returned when processing fails.
failed_data(record) == record.data

\* lines 72-78: the except clause.  Both record['recordId'] and
\* record['data'] are subscripts, so a missing key is a KeyError that leaves
\* process_record.
except_clause(record, log) ==
    IF ~record.hasId THEN Raises("KeyError", log)
    ELSE LET log2 == Append(log, <<"ERROR", record.recordId>>)
         IN IF ~record.hasData THEN Raises("KeyError", log2)
            ELSE Returns([recordId |-> record.recordId,
                          result |-> "ProcessingFailed",
                          data |-> failed_data(record)], log2)

process_record(record, py) ==
    LET text == decode_data(record, py)
    IN IF ~text.ok THEN except_clause(record, <<>>)
       ELSE IF ~record.hasId THEN except_clause(record, <<>>)
       ELSE LET id == record.recordId
                parsed == parse_lines(split(text.val, 10), id,
                              [records |-> <<>>, log |-> <<<<"INFO", id>>>>])
                encoded == encode_records(parsed.records, py)
            IN IF ~encoded.ok THEN except_clause(record, parsed.log)
               ELSE Returns([recordId |-> id,
                             result |-> "Ok",
                             data |-> encoded.val], parsed.log)

(***************************************************************************)
(* Bounded inputs.                                                         *)
(*                                                                         *)
(* A payload is a sequence of lines joined by '\n', with or without a      *)
(* final '\n'; a line is a sequence of fields joined by the tab.  A line   *)
(* of a payload whose lines end with '\r\n' keeps the '\r' in its last     *)
(* field.  A payload may hold any character, NUL included.                 *)
(***************************************************************************)
MaxLines == 2
MaxRecords == 2
MaxInvocations == 2

RECURSIVE JoinWith(_, _)
JoinWith(parts, sep) ==
    IF Len(parts) = 0 THEN <<>>
    ELSE IF Len(parts) = 1 THEN parts[1]
    ELSE parts[1] \o <<sep>> \o JoinWith(Tail(parts), sep)

SeqsUpTo(S, n) == UNION {[1..k -> S] : k \in 0..n}

LinesOver(F, counts) == {JoinWith(fs, DELIMITER) : fs \in UNION {[1..n -> F] : n \in counts}}

WithEnding(texts) == texts \cup {t \o <<10>> : t \in texts}

\* "", "a", " ", ",", '"', e-acute, " a "
RichFields == {<<>>, <<97>>, <<32>>, <<44>>, <<34>>, <<233>>, <<32, 97, 32>>}

\* "a", ",", "a\r", NUL
ControlFields == {<<97>>, <<44>>, <<97, 13>>, <<0>>}

\* one line of 4 fields of any content
RichPayloads ==
    WithEnding(LinesOver(RichFields, {Len(CLICKSTREAM_LABELS)})
               \cup LinesOver(ControlFields, {Len(CLICKSTREAM_LABELS)}))

\* the lines of the longer payloads: 1, 3 and 5 fields "a"; 4 fields "a",
\* 4 empty fields, "a" and 3 empty fields, 3 empty fields and "a"; 4 fields
\* ","; the empty line and the line of one space; the line "a\ta\ta\ta\r"
\* and the empty line "\r" of a payload whose lines end with '\r\n'; the
\* line of 3 fields "a" and a NUL
PlainLines ==
    LinesOver({<<97>>}, {1, 3, 5})
    \cup LinesOver({<<97>>}, {Len(CLICKSTREAM_LABELS)})
    \cup LinesOver({<<>>}, {Len(CLICKSTREAM_LABELS)})
    \cup {<<97, 9, 9, 9>>, <<9, 9, 9, 97>>}
    \cup LinesOver({<<44>>}, {Len(CLICKSTREAM_LABELS)})
    \cup {<<>>, <<32>>}
    \cup {<<97, 9, 97, 9, 97, 9, 97, 13>>, <<13>>}
    \cup {<<97, 9, 97, 9, 97, 9, 0>>}

\* up to MaxLines such lines
PlainPayloads == WithEnding({JoinWith(ls, 10) : ls \in SeqsUpTo(PlainLines, MaxLines)})

\* the two payloads of the documented scenarios
ScenarioPayloads ==
    { <<97, 9, 98, 9, 99, 9, 49, 10, 120, 9, 121, 9, 122, 9, 50, 10>>,
      <<97, 9, 98, 9, 99, 9, 49, 10, 98, 97, 100, 108, 105, 110, 101, 10>> }

Payloads == RichPayloads \cup PlainPayloads \cup ScenarioPayloads

\* data that is the base64 of a UTF-8 payload
EncodedData == {b64encode(utf8_encode(p)) : p \in Payloads}

\* the base64 of byte strings that may not be UTF-8: 'a', C3, A9, E2, 80, FF
RawBytes == SeqsUpTo({97, 195, 169, 226, 128, 255}, 3)
BinaryData == {b64encode(b) : b \in RawBytes}

\* text that may not be base64: 'Y', 'Q', '=', '!', newline, e-acute
RawData == SeqsUpTo({89, 81, 61, 33, 10, 233}, 5)

DataValues == EncodedData \cup BinaryData \cup RawData

InputRecord(d) == [hasId |-> TRUE, recordId |-> "r1", hasData |-> TRUE, data |-> d]
\* dicts that lack a key
NoDataRecord == [hasId |-> TRUE, recordId |-> "r1", hasData |-> FALSE, data |-> <<>>]
NoIdRecord(d) == [hasId |-> FALSE, recordId |-> NoId, hasData |-> TRUE, data |-> d]
NoKeyRecord == [hasId |-> FALSE, recordId |-> NoId, hasData |-> FALSE, data |-> <<>>]

RecordInputs ==
    {InputRecord(d) : d \in DataValues}
    \cup {NoIdRecord(d) : d \in BinaryData}
    \cup {NoIdRecord(b64encode(utf8_encode(p))) : p \in ScenarioPayloads}
    \cup {NoDataRecord, NoKeyRecord}

\* the records of the batches: two with a line of 4 fields and a malformed
\* line ("a\t\t\t\0\na", the last field a NUL, and "a\t\t\t\r\na", the
\* first line ended by '\r\n'), one whose data is base64 for some
\* interpreters only ("YQ==Y"), one whose data is not UTF-8 (the byte FF),
\* and a dict that lacks its data; the data is written as its base64 text
\* "YQkJCQAKYQ=="
BatchRow == <<89, 81, 107, 74, 67, 81, 65, 75, 89, 81, 61, 61>>
\* "YQkJCQ0KYQ=="
BatchRowCRLF == <<89, 81, 107, 74, 67, 81, 48, 75, 89, 81, 61, 61>>
\* "/w=="
BatchNotUTF8 == <<47, 119, 61, 61>>
BatchRecords ==
    { [hasId |-> TRUE, recordId |-> "r1", hasData |-> TRUE, data |-> BatchRow],
      [hasId |-> TRUE, recordId |-> "r2", hasData |-> TRUE, data |-> BatchRowCRLF],
      [hasId |-> TRUE, recordId |-> "r1", hasData |-> TRUE, data |-> <<89, 81, 61, 61, 89>>],
      [hasId |-> TRUE, recordId |-> "r2", hasData |-> TRUE, data |-> BatchNotUTF8],
      NoDataRecord }

Batches == SeqsUpTo(BatchRecords, MaxRecords)

(***************************************************************************)
(* Values of os.environ.get('DATA_BUCKET_NAME'): None when the variable is *)
(* not set, else its str.                                                  *)
(***************************************************************************)
None == [none |-> TRUE, str |-> ""]
Str(s) == [none |-> FALSE, str |-> s]
EnvValues == {None, Str(""), Str("my-bucket")}

VARIABLES
    python_version,              \* the interpreter the function runs on
    record, result, called,      \* one call of process_record
    environ,                     \* os.environ.get('DATA_BUCKET_NAME'), now
    data_bucket,                 \* the module global of line 10
    pc,                          \* "unloaded", "idle", "loop", "returned", "raised";
                                 \* "workers" while the workers run
    exc,                         \* the exception that left handler
    event,                       \* event['records'] of the current invocation
    idx,                         \* position of the for loop of line 97
    response,                    \* response['records']
    log,                         \* the logger's records of the invocation
    calls,                       \* calls of process_record in the invocation
    outcomes,                    \* per invocation, the outcome of
                                 \* validate_environment_variables
    wpc,                         \* per worker: "start", "lines", "done"
    wlines,                      \* per worker: the lines still to read
    wrecords,                    \* per worker: the local list records
    wresult                      \* per worker: what its call gave

rvars == <<record, result, called>>
hvars == <<environ, data_bucket, pc, exc, event, idx, response, log, calls, outcomes>>
pvars == <<wpc, wlines, wrecords, wresult>>
vars == <<python_version, rvars, hvars, pvars>>

HandlerAtRest ==
    /\ environ = None
    /\ data_bucket = None
    /\ pc = "unloaded"
    /\ exc = ""
    /\ event = <<>>
    /\ idx = 1
    /\ response = <<>>
    /\ log = <<>>
    /\ calls = 0
    /\ outcomes = <<>>

RecordAtRest ==
    /\ record = NoKeyRecord
    /\ result = Returns(NoReturn, <<>>)
    /\ called = FALSE

WorkersAtRest ==
    /\ wpc = <<>>
    /\ wlines = <<>>
    /\ wrecords = <<>>
    /\ wresult = <<>>

(***************************************************************************)
(* One call of process_record on one record.                               *)
(***************************************************************************)
InitRecord ==
    /\ python_version \in PythonVersions
    /\ record \in RecordInputs
    /\ result = Returns(NoReturn, <<>>)
    /\ called = FALSE
    /\ HandlerAtRest
    /\ WorkersAtRest

CallProcessRecord ==
    /\ ~called
    /\ result' = process_record(record, python_version)
    /\ called' = TRUE
    /\ UNCHANGED <<python_version, record, hvars, pvars>>

NextRecord == CallProcessRecord

SpecRecord == InitRecord /\ [][NextRecord]_vars

(***************************************************************************)
(* The module and its handler (lines 8-14 and 80-102).                     *)
(***************************************************************************)
\* variant: only None is refused
IsNoneOnly(v) == v.none

\* line 22: not data_bucket
IsFalsy(v) == v.none \/ v.str = ""

\* variant: the environment is read again at each invocation
ConfigValueNow == environ

\* line 22: the value validate_environment_variables looks at
ConfigValue == data_bucket

\* variant: every iteration processes the first record
CurrentRecordFirst(records, i) == records[1]

\* line 97: the record of the iteration
CurrentRecord(records, i) == records[i]

\* variant: only the records processed with success are appended
AppendProcessedOkOnly(records, processed) ==
    IF processed.result = "Ok" THEN Append(records, processed) ELSE records

\* line 99: response['records'].append(processed_record)
AppendProcessed(records, processed) == Append(records, processed)

Init ==
    /\ python_version \in PythonVersions
    /\ environ \in EnvValues
    /\ data_bucket = None
    /\ pc = "unloaded"
    /\ exc = ""
    /\ event = <<>>
    /\ idx = 1
    /\ response = <<>>
    /\ log = <<>>
    /\ calls = 0
    /\ outcomes = <<>>
    /\ RecordAtRest
    /\ WorkersAtRest

\* lines 9-14: the import of the module
ImportModule ==
    /\ pc = "unloaded"
    /\ data_bucket' = environ
    /\ pc' = "idle"
    /\ UNCHANGED <<python_version, environ, exc, event, idx, response, log, calls, outcomes, rvars, pvars>>

\* the process environment changes between two invocations
SetEnviron(v) ==
    /\ pc \in {"idle", "returned", "raised"}
    /\ v # environ
    /\ environ' = v
    /\ UNCHANGED <<python_version, data_bucket, pc, exc, event, idx, response, log, calls, outcomes, rvars, pvars>>

\* lines 89-94: handler is entered; validate_environment_variables
Invoke(batch) ==
    /\ pc \in {"idle", "returned", "raised"}
    /\ Len(outcomes) < MaxInvocations
    /\ event' = batch
    /\ idx' = 1
    /\ response' = <<>>
    /\ log' = <<>>
    /\ calls' = 0
    /\ IF IsFalsy(ConfigValue)
       THEN /\ pc' = "raised"
            /\ exc' = "ValueError"
            /\ outcomes' = Append(outcomes, "ValueError")
       ELSE /\ pc' = "loop"
            /\ exc' = ""
            /\ outcomes' = Append(outcomes, "valid")
    /\ UNCHANGED <<python_version, environ, data_bucket, rvars, pvars>>

\* lines 97-99: one iteration of the loop
Iterate ==
    /\ pc = "loop"
    /\ idx <= Len(event)
    /\ LET processed == process_record(CurrentRecord(event, idx), python_version)
       IN /\ calls' = calls + 1
          /\ log' = log \o processed.log
          /\ IF processed.raised
             THEN /\ pc' = "raised"
                  /\ exc' = processed.exc
                  /\ UNCHANGED <<idx, response>>
             ELSE /\ response' = AppendProcessed(response, processed.ret)
                  /\ idx' = idx + 1
                  /\ UNCHANGED <<pc, exc>>
    /\ UNCHANGED <<python_version, environ, data_bucket, event, outcomes, rvars, pvars>>

\* lines 101-102: the loop is over
Return ==
    /\ pc = "loop"
    /\ idx > Len(event)
    /\ log' = Append(log, <<"INFO", NoId>>)
    /\ pc' = "returned"
    /\ UNCHANGED <<python_version, environ, data_bucket, exc, event, idx, response, calls, outcomes, rvars, pvars>>

Next ==
    \/ ImportModule
    \/ \E v \in EnvValues : SetEnviron(v)
    \/ \E batch \in Batches : Invoke(batch)
    \/ Iterate
    \/ Return

Spec == Init /\ [][Next]_vars

(***************************************************************************)
(* The records of a batch processed by concurrent workers, one per record, *)
(* each running process_record on its record: the decoding (lines 33-40),  *)
(* the loop over the lines one line at a time (lines 42-57), the encoding  *)
(* (lines 59-70), the except clause (lines 72-78).  What a call shares     *)
(* with the other calls is the logger; its list records is its own.  The   *)
(* results are put together in the order of the input records; the         *)
(* exception of a call is raised when its result is asked for.             *)
(***************************************************************************)
\* variant: records is one list shared by the calls
append_cols_shared(rows, w, cols) == [v \in DOMAIN rows |-> Append(rows[v], cols)]

\* lines 40 and 54: records is a local of the call
append_cols(rows, w, cols) == [rows EXCEPT ![w] = Append(@, cols)]

InitPar ==
    /\ python_version \in PythonVersions
    /\ event \in Batches
    /\ environ = Str("my-bucket")
    /\ data_bucket = Str("my-bucket")
    /\ pc = "workers"
    /\ exc = ""
    /\ idx = 1
    /\ response = <<>>
    /\ log = <<>>
    /\ calls = 0
    /\ outcomes = <<"valid">>
    /\ wpc = [w \in DOMAIN event |-> "start"]
    /\ wlines = [w \in DOMAIN event |-> <<>>]
    /\ wrecords = [w \in DOMAIN event |-> <<>>]
    /\ wresult = [w \in DOMAIN event |-> Returns(NoReturn, <<>>)]
    /\ RecordAtRest

WorkerDecode(w) ==
    /\ pc = "workers"
    /\ wpc[w] = "start"
    /\ LET text == decode_data(event[w], python_version)
       IN IF ~text.ok \/ ~event[w].hasId
          THEN LET failed == except_clause(event[w], <<>>)
               IN /\ wresult' = [wresult EXCEPT ![w] = [failed EXCEPT !.log = <<>>]]
                  /\ log' = log \o failed.log
                  /\ wpc' = [wpc EXCEPT ![w] = "done"]
                  /\ UNCHANGED <<wlines, wrecords>>
          ELSE /\ log' = Append(log, <<"INFO", event[w].recordId>>)
               /\ wlines' = [wlines EXCEPT ![w] = split(text.val, 10)]
               /\ wrecords' = [wrecords EXCEPT ![w] = <<>>]
               /\ wpc' = [wpc EXCEPT ![w] = "lines"]
               /\ UNCHANGED wresult
    /\ calls' = calls + 1
    /\ UNCHANGED <<python_version, environ, data_bucket, pc, exc, event, idx, response, outcomes, rvars>>

WorkerLine(w) ==
    /\ pc = "workers"
    /\ wpc[w] = "lines"
    /\ wlines[w] # <<>>
    /\ LET line == Head(wlines[w])
           cols == split_columns(line)
       IN IF IsBlankLine(line) THEN UNCHANGED <<log, wrecords>>
          ELSE IF IsMalformed(cols)
          THEN /\ log' = Append(log, <<"WARNING", event[w].recordId>>)
               /\ UNCHANGED wrecords
          ELSE /\ wrecords' = append_cols(wrecords, w, cols)
               /\ UNCHANGED log
    /\ wlines' = [wlines EXCEPT ![w] = Tail(@)]
    /\ UNCHANGED <<python_version, environ, data_bucket, pc, exc, event, idx, response, calls,
                   outcomes, wpc, wresult, rvars>>

WorkerEncode(w) ==
    /\ pc = "workers"
    /\ wpc[w] = "lines"
    /\ wlines[w] = <<>>
    /\ LET encoded == encode_records(wrecords[w], python_version)
           failed == except_clause(event[w], <<>>)
       IN IF ~encoded.ok
          THEN /\ wresult' = [wresult EXCEPT ![w] = [failed EXCEPT !.log = <<>>]]
               /\ log' = log \o failed.log
          ELSE /\ wresult' = [wresult EXCEPT ![w] =
                                 Returns([recordId |-> event[w].recordId,
                                          result |-> "Ok",
                                          data |-> encoded.val], <<>>)]
               /\ UNCHANGED log
    /\ wpc' = [wpc EXCEPT ![w] = "done"]
    /\ UNCHANGED <<python_version, environ, data_bucket, pc, exc, event, idx, response, calls,
                   outcomes, wlines, wrecords, rvars>>

\* the first worker, in the order of the input, whose call raised
FirstRaised == {w \in DOMAIN event : wresult[w].raised /\ \A v \in 1..(w - 1) : ~wresult[v].raised}

Reassemble ==
    /\ pc = "workers"
    /\ \A w \in DOMAIN event : wpc[w] = "done"
    /\ IF FirstRaised = {}
       THEN /\ response' = [w \in DOMAIN event |-> wresult[w].ret]
            /\ log' = Append(log, <<"INFO", NoId>>)
            /\ pc' = "returned"
            /\ UNCHANGED <<exc, idx>>
       ELSE /\ \E w \in FirstRaised :
                 /\ response' = [v \in 1..(w - 1) |-> wresult[v].ret]
                 /\ exc' = wresult[w].exc
                 /\ idx' = w
            /\ pc' = "raised"
            /\ UNCHANGED log
    /\ UNCHANGED <<python_version, environ, data_bucket, event, calls, outcomes, pvars, rvars>>

NextPar ==
    \/ \E w \in DOMAIN event : WorkerDecode(w)
    \/ \E w \in DOMAIN event : WorkerLine(w)
    \/ \E w \in DOMAIN event : WorkerEncode(w)
    \/ Reassemble

SpecPar == InitPar /\ [][NextPar]_vars

(***************************************************************************)
(* Vocabulary of the properties of process_record.                         *)
(***************************************************************************)
\* the record is a dict holding both keys
WellFormed(r) == r.hasId /\ r.hasData

\* well-formed base64 text (RFC 4648, section 4): quads of alphabet
\* characters, the last one padded with at most two '='
StrictBase64(s) ==
    /\ Len(s) % 4 = 0
    /\ \A k \in DOMAIN s :
          \/ B64Val(s[k]) < 64
          \/ /\ s[k] = 61
             /\ k >= Len(s) - 1
             /\ \A j \in k..Len(s) : s[j] = 61

\* the decoded payload of a record whose data the code decodes
PayloadText(r) == decode_data(r, python_version).val

\* the lines of a payload: the text between the newlines, the empty text
\* after a final newline not being a line
PayloadLines(t) ==
    LET ls == split(t, 10)
    IN IF ls[Len(ls)] = <<>> THEN SubSeq(ls, 1, Len(ls) - 1) ELSE ls

FieldsOf(line) == split(line, 9)
HasFourFields(line) == Len(FieldsOf(line)) = 4
WhitespaceOnly(line) == \A k \in DOMAIN line : isspace(line[k])

\* the decoded body of a returned record
OutputBody(res) == utf8_decode(b64decode(res.ret.data, python_version).val).val

\* a CSV reader: the rows of fields of a body in which ',' separates the
\* fields, '\n' ends a row and a field may be enclosed in double quotes,
\* a quote inside it being doubled
RECURSIVE csv_read(_, _, _, _, _, _)
csv_read(t, i, st, cur, row, rows) ==
    IF i > Len(t)
    THEN IF st = "start" /\ row = <<>> THEN rows ELSE Append(rows, Append(row, cur))
    ELSE LET c == t[i]
         IN IF st = "quoted"
            THEN IF c = 34 THEN csv_read(t, i + 1, "quote", cur, row, rows)
                 ELSE csv_read(t, i + 1, "quoted", Append(cur, c), row, rows)
            ELSE IF c = 34 /\ st = "start"
            THEN csv_read(t, i + 1, "quoted", cur, row, rows)
            ELSE IF c = 34 /\ st = "quote"
            THEN csv_read(t, i + 1, "quoted", Append(cur, c), row, rows)
            ELSE IF c = 44
            THEN csv_read(t, i + 1, "start", <<>>, Append(row, cur), rows)
            ELSE IF c = 10
            THEN csv_read(t, i + 1, "start", <<>>, <<>>, Append(rows, Append(row, cur)))
            ELSE csv_read(t, i + 1, "plain", Append(cur, c), row, rows)

CsvRows(body) == csv_read(body, 1, "start", <<>>, <<>>, <<>>)

MapFields(lines) == [k \in DOMAIN lines |-> FieldsOf(lines[k])]
PlainRow(line) == JoinWith(FieldsOf(line), 44) \o <<10>>
NoCommaNoQuote(line) == \A k \in DOMAIN line : line[k] # 44 /\ line[k] # 34
HoldsCR(f) == \E k \in DOMAIN f : f[k] = 13
HoldsNUL(f) == \E k \in DOMAIN f : f[k] = 0

\* the interpreters by what their csv writer does of a field
WriterQuotesCR == python_version \in {"3.13.0", "3.13.13"}
WriterQuotesNUL == python_version = "3.9"
WriterRefusesNUL == python_version = "3.10"

\* the fields joined by commas, a field that the writer of the interpreter
\* quotes for its carriage return or its NUL being enclosed in double quotes
RowOfInterpreter(line) ==
    JoinWith([k \in DOMAIN FieldsOf(line) |->
                 IF \/ WriterQuotesCR /\ HoldsCR(FieldsOf(line)[k])
                    \/ WriterQuotesNUL /\ HoldsNUL(FieldsOf(line)[k])
                 THEN <<34>> \o FieldsOf(line)[k] \o <<34>>
                 ELSE FieldsOf(line)[k]], 44) \o <<10>>

\* the lines of a payload that have exactly 4 fields and are not made only
\* of whitespace
RowLines(t) ==
    SelectSeq(split(t, 10), LAMBDA l : HasFourFields(l) /\ ~WhitespaceOnly(l))

\* the csv writer of the interpreter refuses a row of the payload: CPython
\* 3.10 and a NUL in a field
WriterRefuses(t) ==
    WriterRefusesNUL /\ \E k \in DOMAIN RowLines(t) : HoldsNUL(RowLines(t)[k])

ReturnedOk(res) == ~res.raised /\ res.ret.result = "Ok"
ReturnedFailed(res) == ~res.raised /\ res.ret.result = "ProcessingFailed"

(***************************************************************************)
(* Properties of process_record, under SpecRecord.                         *)
(***************************************************************************)

\* C2 (as claimed): process_record never raises: for every input record,
\* one that lacks the data key or the recordId key included, it returns a
\* record whose result is Ok or ProcessingFailed.
C2_NeverRaises ==
    called => /\ ~result.raised
              /\ result.ret.result \in {"Ok", "ProcessingFailed"}

\* C3 (as claimed): a record whose data is not well-formed base64 text, or
\* whose decoded bytes are not valid UTF-8, is returned as ProcessingFailed
\* with its data unchanged.
C3_InvalidTextFails ==
    (called /\ WellFormed(record)
       /\ (~StrictBase64(record.data) \/ ~decode_data(record, python_version).ok))
    => (ReturnedFailed(result) /\ result.ret.data = record.data)

\* C3 (amended): a record whose data b64decode rejects in its default,
\* non-validating mode on the interpreter the function runs on, or whose
\* decoded bytes are not valid UTF-8, or of which the csv writer of the
\* interpreter refuses a row, is returned as ProcessingFailed with its
\* recordId and with data equal to the input data: nothing of a transform is
\* returned; every other record is returned as Ok.
C3_UndecodableFails ==
    (called /\ WellFormed(record))
    => LET raw == b64decode(record.data, python_version)
       IN IF \/ ~raw.ok
             \/ ~utf8_decode(raw.val).ok
             \/ WriterRefuses(utf8_decode(raw.val).val)
          THEN /\ ReturnedFailed(result)
               /\ result.ret.data = record.data
               /\ result.ret.recordId = record.recordId
          ELSE ReturnedOk(result)

C3_Witness ==
    /\ called /\ WellFormed(record)
    /\ b64decode(record.data, python_version).ok
    /\ ~utf8_decode(b64decode(record.data, python_version).val).ok
    /\ ReturnedFailed(result)
    /\ result.ret.data = record.data
    /\ record.data # <<>>

\* the payload of the record is N lines of exactly 4 fields each
AllLinesFour(r) ==
    /\ WellFormed(r) /\ decode_data(r, python_version).ok
    /\ \A k \in DOMAIN PayloadLines(PayloadText(r)) :
          HasFourFields(PayloadLines(PayloadText(r))[k])

\* C4 (as claimed): a payload of N lines of exactly 4 fields each gives Ok
\* and a body of N lines, each the 4 fields of the line joined by commas and
\* ended by one newline.
C4_FourFieldLinesJoined ==
    (called /\ AllLinesFour(record))
    => /\ ReturnedOk(result)
       /\ LET ls == PayloadLines(PayloadText(record))
          IN OutputBody(result) = Flatten([k \in DOMAIN ls |-> PlainRow(ls[k])])

\* C4 (amended): a payload of N lines of exactly 4 fields each, none of them
\* made only of whitespace, gives Ok and a body of exactly N rows in the
\* order of the lines, each ended by one newline and holding the 4 fields
\* of its line separated by commas, a field that holds a comma or a double
\* quote being enclosed in double quotes with its quotes doubled.  A line
\* without a comma or a double quote is written as its fields joined by
\* commas, except that a field that holds a carriage return (the last field
\* of a line ended by '\r\n') is enclosed in double quotes on CPython 3.13
\* and later, and a field that holds a NUL is so enclosed on CPython 3.6 to
\* 3.9.  On CPython 3.10 a payload with a NUL in a field is refused by the
\* csv writer and the record is ProcessingFailed with its data unchanged.
C4_FourFieldLinesAsCsv ==
    (called /\ AllLinesFour(record)
       /\ LET ls == PayloadLines(PayloadText(record))
          IN \A k \in DOMAIN ls : ~WhitespaceOnly(ls[k]))
    => LET ls == PayloadLines(PayloadText(record))
           body == OutputBody(result)
       IN IF WriterRefusesNUL /\ \E k \in DOMAIN ls : HoldsNUL(ls[k])
          THEN /\ ReturnedFailed(result)
               /\ result.ret.recordId = record.recordId
               /\ result.ret.data = record.data
          ELSE /\ ReturnedOk(result)
               /\ result.ret.recordId = record.recordId
               /\ CsvRows(body) = MapFields(ls)
               /\ Len(SelectSeq(body, LAMBDA c : c = 10)) = Len(ls)
               /\ (\A k \in DOMAIN ls : NoCommaNoQuote(ls[k]))
                    => body = Flatten([k \in DOMAIN ls |-> RowOfInterpreter(ls[k])])

\* two lines of 4 fields give two different rows; the second line ends with
\* a carriage return, which the interpreter, 3.13 or later, has quoted
C4_Witness ==
    /\ called /\ AllLinesFour(record)
    /\ python_version = "3.13.13"
    /\ Len(PayloadLines(PayloadText(record))) = 2
    /\ ReturnedOk(result)
    /\ Len(CsvRows(OutputBody(result))) = 2
    /\ CsvRows(OutputBody(result))[1] # CsvRows(OutputBody(result))[2]
    /\ HoldsCR(CsvRows(OutputBody(result))[2][4])
    /\ OutputBody(result) # Flatten([k \in 1..2 |->
                               PlainRow(PayloadLines(PayloadText(record))[k])])

\* the payload with its malformed lines (a field count other than 4) removed
WithoutMalformed(r) ==
    LET ls == split(PayloadText(r), 10)
    IN InputRecord(b64encode(utf8_encode(JoinWith(SelectSeq(ls, HasFourFields), 10))))

\* C5 (as claimed): in a decodable record with a line whose field count is
\* not 4, that line contributes nothing to the body and the other lines are
\* still written: the record is Ok and its body is the body of the same
\* payload without those lines; when every line is malformed the body is
\* empty.
C5_MalformedLinesDropped ==
    (called /\ WellFormed(record) /\ decode_data(record, python_version).ok
       /\ \E k \in DOMAIN PayloadLines(PayloadText(record)) :
             ~HasFourFields(PayloadLines(PayloadText(record))[k]))
    => /\ ReturnedOk(result)
       /\ OutputBody(result)
            = OutputBody(process_record(WithoutMalformed(record), python_version))
       /\ (\A k \in DOMAIN PayloadLines(PayloadText(record)) :
              ~HasFourFields(PayloadLines(PayloadText(record))[k]))
            => (OutputBody(result) = <<>> /\ result.ret.data = <<>>)

\* C5 (amended): in a decodable record a line whose field count is not 4
\* contributes nothing to the body and the other lines are still written:
\* the record is Ok and its body is the body of the same payload without
\* those lines, and when every line is malformed the body is empty; unless
\* the csv writer of the interpreter refuses one of the other lines (CPython
\* 3.10 and a NUL in a field), the record then being ProcessingFailed with
\* its data unchanged.
C5_MalformedLinesDroppedOrRefused ==
    (called /\ WellFormed(record) /\ decode_data(record, python_version).ok)
    => IF WriterRefuses(PayloadText(record))
       THEN /\ ReturnedFailed(result)
            /\ result.ret.data = record.data
       ELSE /\ ReturnedOk(result)
            /\ OutputBody(result)
                 = OutputBody(process_record(WithoutMalformed(record), python_version))
            /\ (\A k \in DOMAIN PayloadLines(PayloadText(record)) :
                   ~HasFourFields(PayloadLines(PayloadText(record))[k]))
                 => (OutputBody(result) = <<>> /\ result.ret.data = <<>>)

C5_Witness ==
    /\ called /\ WellFormed(record) /\ decode_data(record, python_version).ok
    /\ \E k \in DOMAIN PayloadLines(PayloadText(record)) :
          ~HasFourFields(PayloadLines(PayloadText(record))[k])
    /\ ReturnedOk(result)
    /\ OutputBody(result) # <<>>

\* the lines of the payload that have exactly 4 fields
FourFieldLines(r) == SelectSeq(split(PayloadText(r), 10), HasFourFields)

\* C9 (as claimed): every line of a decodable payload that has exactly 4
\* fields gives one row holding the 4 field texts unchanged, whatever they
\* are, empty or whitespace-only fields included.
C9_EveryFourFieldLineKept ==
    (called /\ WellFormed(record) /\ decode_data(record, python_version).ok)
    => /\ ReturnedOk(result)
       /\ CsvRows(OutputBody(result)) = MapFields(FourFieldLines(record))

\* C9 (amended): every line of a decodable payload that has exactly 4 fields
\* and is not made only of whitespace gives one row holding the 4 field
\* texts unchanged (not converted, not trimmed), empty and whitespace-only
\* fields included; a line made only of whitespace gives no row.  The one
\* content that is not accepted is a NUL on CPython 3.10, whose csv writer
\* refuses it: the record is then ProcessingFailed with its data unchanged.
C9_NonBlankFourFieldLineKept ==
    (called /\ WellFormed(record) /\ decode_data(record, python_version).ok)
    => IF WriterRefuses(PayloadText(record))
       THEN /\ ReturnedFailed(result)
            /\ result.ret.data = record.data
       ELSE /\ ReturnedOk(result)
            /\ CsvRows(OutputBody(result))
                 = MapFields(SelectSeq(FourFieldLines(record),
                                       LAMBDA l : ~WhitespaceOnly(l)))

C9_Witness ==
    /\ called /\ WellFormed(record) /\ decode_data(record, python_version).ok
    /\ ReturnedOk(result)
    /\ \E k \in DOMAIN CsvRows(OutputBody(result)) :
          LET row == CsvRows(OutputBody(result))[k]
          IN /\ row[1] = <<32>>
             /\ row[2] = <<>>
             /\ row[3] = <<32, 97, 32>>
             /\ row[4] = <<34>>

(***************************************************************************)
(* Properties of handler, under Spec.                                      *)
(***************************************************************************)
\* the configuration value is absent (None) or empty
Absent(v) == v = None \/ v = Str("")

\* lines 91-102 as a function of the batch: the records returned, or the
\* exception of the first record whose processing raises
RECURSIVE run_loop(_, _, _, _)
run_loop(records, i, out, py) ==
    IF i > Len(records) THEN [raised |-> FALSE, records |-> out]
    ELSE LET processed == process_record(records[i], py)
         IN IF processed.raised THEN [raised |-> TRUE, records |-> out]
            ELSE run_loop(records, i + 1, Append(out, processed.ret), py)

handler_records(records) == run_loop(records, 1, <<>>, python_version)

\* C1: when handler returns, the configuration value being present, the
\* records returned are as many as the input records and the record at each
\* position carries the recordId of the input record at that position; and
\* handler does return for every batch whose records all hold their two keys.
C1_SameLengthOrderIds ==
    /\ pc = "returned"
         => /\ ~Absent(data_bucket)
            /\ Len(response) = Len(event)
            /\ \A i \in DOMAIN event : response[i].recordId = event[i].recordId
    /\ pc = "loop"
         => /\ Len(response) = idx - 1
            /\ \A i \in DOMAIN response : response[i].recordId = event[i].recordId
    /\ (pc = "raised" /\ ~Absent(data_bucket))
         => \E i \in DOMAIN event : ~WellFormed(event[i])

C1_Witness ==
    /\ pc = "returned"
    /\ Len(event) = 2
    /\ event[1].recordId = "r2" /\ event[2].recordId = "r1"
    /\ response[1].recordId = "r2" /\ response[2].recordId = "r1"
    /\ response[1].result = "ProcessingFailed"
    /\ response[2].result = "Ok"

\* C6: when the configuration value captured is None or empty, every
\* invocation of handler ends with the ValueError of the validation, with
\* no call of process_record made and no records returned.
C6_ConfigErrorBeforeRecords ==
    (Absent(data_bucket) /\ pc \notin {"unloaded", "idle"})
    => /\ pc = "raised"
       /\ exc = "ValueError"
       /\ calls = 0
       /\ response = <<>>
       /\ log = <<>>

C6_Witness ==
    /\ data_bucket = Str("")
    /\ pc = "raised"
    /\ Len(event) = 2
    /\ calls = 0
    /\ Len(outcomes) = 2

\* C7: the record returned at a position is the one process_record gives
\* for the input record at that position, whatever the other records are:
\* any batch that holds the same record at that position, and for which
\* handler gets as far as that position, has the same record returned there;
\* a ProcessingFailed record does not stop the loop, which only ends before
\* the last record at a record whose processing raises.
C7_Isolation ==
    /\ \A i \in DOMAIN response :
          /\ response[i] = process_record(event[i], python_version).ret
          /\ \A other \in Batches :
                (i \in DOMAIN other /\ other[i] = event[i])
                => LET returned == handler_records(other).records
                   IN i \in DOMAIN returned => returned[i] = response[i]
    /\ pc = "returned" => Len(response) = Len(event)
    /\ (pc = "raised" /\ ~Absent(data_bucket))
          => /\ Len(response) = idx - 1
             /\ idx \in DOMAIN event
             /\ process_record(event[idx], python_version).raised
    /\ pc = "loop" => Len(response) = idx - 1

C7_Witness ==
    /\ pc = "returned"
    /\ Len(event) = 2
    /\ response[1].result = "ProcessingFailed"
    /\ response[1].data = event[1].data
    /\ response[2].result = "Ok"
    /\ response[2].data # <<>>

\* C10: the configuration value is the one captured at import, not the one
\* of the environment at the invocation: every invocation of a process has
\* the same outcome of the validation, the ValueError for all or for none,
\* whatever the environment variable has become since; and the records
\* returned are those the batch alone gives.
C10_SameConfigOutcome ==
    /\ \A j, k \in DOMAIN outcomes : outcomes[j] = outcomes[k]
    /\ \A k \in DOMAIN outcomes :
          outcomes[k] = IF Absent(data_bucket) THEN "ValueError" ELSE "valid"
    /\ pc = "returned" => response = handler_records(event).records

\* a second invocation is in its loop, the variable having been unset since
\* the import
C10_Witness ==
    /\ outcomes = <<"valid", "valid">>
    /\ environ = None
    /\ pc = "loop"
    /\ Len(response) = 2

(***************************************************************************)
(* Property of the concurrent workers, under SpecPar.                      *)
(***************************************************************************)
\* what the logger holds after the sequential loop, when it returns
RECURSIVE sequential_log(_, _)
sequential_log(records, i) ==
    IF i > Len(records) THEN <<>>
    ELSE process_record(records[i], python_version).log \o sequential_log(records, i + 1)

CountOf(s, x) == Cardinality({k \in DOMAIN s : s[k] = x})

\* C8: whatever the interleaving of the steps of the workers, the results
\* put together in the order of the input are what the sequential loop of
\* handler gives for the batch: the same records in the same order when the
\* loop returns, the same exception after the same records when it raises;
\* the logger holds the same records as after the loop, in some order.
C8_WorkersMatchLoop ==
    pc \in {"returned", "raised"}
    => /\ (pc = "raised") = handler_records(event).raised
       /\ response = handler_records(event).records
       /\ pc = "raised" => exc = process_record(event[idx], python_version).exc
       /\ pc = "returned"
            => \A x \in Range(log) \cup Range(sequential_log(event, 1)) :
                  CountOf(log, x) = CountOf(sequential_log(event, 1) \o <<<<"INFO", NoId>>>>, x)

\* both workers have read their first line before either has encoded, and
\* both rows are returned
C8_Witness ==
    /\ pc = "returned"
    /\ Len(event) = 2
    /\ response[1].result = "Ok" /\ response[1].data # <<>>
    /\ response[2].result = "Ok" /\ response[2].data # <<>>
    /\ log[1] = <<"INFO", event[2].recordId>>
    /\ log[2] = <<"INFO", event[1].recordId>>
    /\ log[3] = <<"WARNING", event[1].recordId>>
    /\ log[4] = <<"WARNING", event[2].recordId>>

====
